---- MODULE Spec2Model ----
(***************************************************************************)
(* The authenticated data-fetching client of the trading dashboard:        *)
(* frontend/src/store/api/api.ts.  baseQueryWithRefresh wraps every        *)
(* network call; createApi (RTK Query, default options) holds the cache,   *)
(* the subscriptions, the provided-tag index and the removal timers.       *)
(* One action is one event-loop turn: the code between two awaits.         *)
(***************************************************************************)
EXTENDS Integers, Sequences, FiniteSets, TLC

\* Total number of baseQuery invocations (call ids) a behaviour may start.
MaxCalls == 2

None == "none"

(***************************************************************************)
(* Query arguments and their serialization into a cache key.               *)
(***************************************************************************)
\* An argument is `undefined`, a string, or a plain object: its fields in the
\* order written.
UndefinedArg == [kind |-> "undefined", fields |-> <<>>, value |-> ""]

StringArg(v) == [kind |-> "string", fields |-> <<>>, value |-> v]

ObjectArg(fs) == [kind |-> "object", fields |-> fs, value |-> ""]

\* Object.keys(value).sort(): the rank of a field name in code-unit order.
KeyRank(name) ==
  CASE name = "category" -> 1
    [] name = "interval" -> 2
    [] name = "limit" -> 3
    [] name = "period" -> 4
    [] name = "query" -> 5
    [] name = "symbol" -> 6
    [] OTHER -> 7

RECURSIVE InsertSorted(_, _)
InsertSorted(f, fs) ==
  IF fs = <<>> THEN <<f>>
  ELSE IF KeyRank(f[1]) <= KeyRank(Head(fs)[1]) THEN <<f>> \o fs
  ELSE <<Head(fs)>> \o InsertSorted(f, Tail(fs))

\* Mutant: the keys stay in the order written.
SortKeys_asWritten(fs) == fs

RECURSIVE SortKeys(_)
SortKeys(fs) ==
  IF fs = <<>> THEN <<>> ELSE InsertSorted(Head(fs), SortKeys(Tail(fs)))

RECURSIVE JsonFields(_)
JsonFields(fs) ==
  IF fs = <<>> THEN <<>>
  ELSE IF Head(fs)[2] = "undefined" THEN JsonFields(Tail(fs))
  ELSE <<Head(fs)[1], ":", Head(fs)[2]>> \o JsonFields(Tail(fs))

\* JSON.stringify of an argument whose keys are in the given order: a field whose
\* value is undefined is left out; a top-level undefined gives `undefined`; a
\* string is quoted.
JsonStringify(arg, fs) ==
  IF arg.kind = "undefined" THEN <<"undefined">>
  ELSE IF arg.kind = "string" THEN <<"\"", arg.value, "\"">>
  ELSE <<"{">> \o JsonFields(fs) \o <<"}">>

\* defaultSerializeQueryArgs: `${endpointName}(${JSON.stringify(args, sorted keys)})`
SerializeQueryArgs(endpointName, arg) ==
  <<endpointName, "(">> \o JsonStringify(arg, SortKeys(arg.fields)) \o <<")">>

(***************************************************************************)
(* Endpoints (api.ts) and the hook call sites that use them.               *)
(***************************************************************************)
NoId == "__internal_without_id"

\* Mutant: getStrategy provides no tag.
ProvidesTags_detailUntagged(endpointName, arg) ==
  CASE endpointName = "getCurrentUser" -> {<<"User", NoId>>}
    [] endpointName = "getStrategies" -> {<<"Strategy", NoId>>}
    [] endpointName = "getBacktests" -> {<<"Backtest", NoId>>}
    [] endpointName = "fetchYFinanceData" -> {<<"MarketData", NoId>>}
    [] endpointName = "getRealtimeData" -> {<<"MarketData", NoId>>}
    [] OTHER -> {}

\* providesTags of a query endpoint, given the argument of the call; a bare
\* string tag is {type} without id.
ProvidesTags(endpointName, arg) ==
  CASE endpointName = "getCurrentUser" -> {<<"User", NoId>>}
    [] endpointName = "getStrategies" -> {<<"Strategy", NoId>>}
    [] endpointName = "getStrategy" -> {<<"Strategy", arg.value>>}
    [] endpointName = "getBacktests" -> {<<"Backtest", NoId>>}
    [] endpointName = "fetchYFinanceData" -> {<<"MarketData", NoId>>}
    [] endpointName = "getRealtimeData" -> {<<"MarketData", NoId>>}
    [] OTHER -> {}

\* invalidatesTags of a mutation endpoint.
InvalidatesTags(endpointName) ==
  CASE endpointName \in {"createStrategy", "updateStrategy", "deleteStrategy",
                         "activateStrategy", "deactivateStrategy"} ->
         {<<"Strategy", NoId>>}
    [] endpointName = "createBacktest" -> {<<"Backtest", NoId>>}
    [] endpointName = "updateUserPreferences" -> {<<"User", NoId>>}
    [] endpointName = "syncMarketData" -> {<<"MarketData", NoId>>}
    [] OTHER -> {}

\* The useQuery call sites: endpoint and argument as written.
HookSite(h) ==
  CASE h = "ProtectedRoute" ->
         [endpoint |-> "getCurrentUser", arg |-> UndefinedArg]
    [] h = "Dashboard_user" ->
         [endpoint |-> "getCurrentUser", arg |-> UndefinedArg]
    [] h = "Dashboard_strategies" ->
         [endpoint |-> "getStrategies", arg |-> ObjectArg(<< <<"limit", "5">> >>)]
    [] h = "Backtests" ->
         [endpoint |-> "getBacktests", arg |-> ObjectArg(<<>>)]
    [] h = "InstrumentSelector" ->
         [endpoint |-> "searchInstruments",
          arg |-> ObjectArg(<< <<"query", "ab">>, <<"category", "undefined">> >>)]
    [] h = "Search_omitted" ->
         [endpoint |-> "searchInstruments", arg |-> ObjectArg(<< <<"query", "ab">> >>)]
    [] h = "Search_stocks" ->
         [endpoint |-> "searchInstruments",
          arg |-> ObjectArg(<< <<"query", "ab">>, <<"category", "stocks">> >>)]
    [] h = "Search_stocks_reordered" ->
         [endpoint |-> "searchInstruments",
          arg |-> ObjectArg(<< <<"category", "stocks">>, <<"query", "ab">> >>)]
    [] h = "Strategies_page" ->
         [endpoint |-> "getStrategies", arg |-> ObjectArg(<<>>)]
    [] h = "Strategies_undefined" ->
         [endpoint |-> "getStrategies", arg |-> UndefinedArg]
    [] h = "Strategy_detail" ->
         [endpoint |-> "getStrategy", arg |-> StringArg("s1")]
    [] h = "MarketData_history" ->
         [endpoint |-> "fetchYFinanceData",
          arg |-> ObjectArg(<< <<"symbol", "AAPL">>, <<"period", "1y">>,
                               <<"interval", "1d">> >>)]
    [] h = "History_defaults" ->
         [endpoint |-> "fetchYFinanceData",
          arg |-> ObjectArg(<< <<"symbol", "AAPL">> >>)]
    [] h = "MarketData_realtime" ->
         [endpoint |-> "getRealtimeData", arg |-> StringArg("AAPL")]

Hooks ==
  {"ProtectedRoute", "Dashboard_user", "Dashboard_strategies", "Backtests",
   "InstrumentSelector", "Search_omitted", "Search_stocks", "Search_stocks_reordered",
   "Strategies_page", "Strategies_undefined", "Strategy_detail",
   "MarketData_history", "History_defaults", "MarketData_realtime"}

\* The value of field name in arg, or def when the field is left out or undefined
\* (a JavaScript default parameter).
FieldOr(arg, name, def) ==
  LET is == {i \in 1..Len(arg.fields) :
               arg.fields[i][1] = name /\ arg.fields[i][2] # "undefined"}
  IN IF is = {} THEN def ELSE arg.fields[CHOOSE i \in is : TRUE][2]

\* The request the endpoint's query function builds from the argument: the url
\* and the query parameters (fetchBaseQuery leaves out undefined parameters).
QueryRequest(endpointName, arg) ==
  CASE endpointName = "getStrategies" ->
         [url |-> <<"/strategies">>,
          params |-> {arg.fields[i] : i \in {j \in 1..Len(arg.fields) :
                                              arg.fields[j][2] # "undefined"}}]
    [] endpointName = "fetchYFinanceData" ->
         [url |-> <<"/market-data/fetch/", FieldOr(arg, "symbol", "undefined")>>,
          params |-> {<<"period", FieldOr(arg, "period", "1y")>>,
                      <<"interval", FieldOr(arg, "interval", "1d")>>}]
    [] endpointName \in {"getStrategy", "getRealtimeData"} ->
         [url |-> <<endpointName, arg.value>>, params |-> {}]
    [] OTHER ->
         [url |-> <<endpointName>>,
          params |-> {arg.fields[i] : i \in {j \in 1..Len(arg.fields) :
                                              arg.fields[j][2] # "undefined"}}]

\* The hooks that pass a pollingInterval.
PollingHooks == {"MarketData_realtime"}

KeyOf(h) == SerializeQueryArgs(HookSite(h).endpoint, HookSite(h).arg)

EndpointOf(k) == k[1]

\* The argument a request for key k was started with (meta.arg.originalArgs).
OriginalArgs(k) == HookSite(CHOOSE h \in Hooks : KeyOf(h) = k).arg

\* The pages a behaviour renders: the hooks that may mount and the mutations
\* their forms may trigger.
Scenarios ==
  {"dashboard", "lists", "untagged", "search_undefined", "search_order",
   "backtests", "strategy_detail", "defaults", "history", "market"}

ScenarioHooks(s) ==
  CASE s = "dashboard" -> {"ProtectedRoute", "Dashboard_user"}
    [] s = "lists" -> {"Dashboard_strategies", "Backtests"}
    [] s = "untagged" -> {"Dashboard_strategies", "InstrumentSelector"}
    [] s = "backtests" -> {"Backtests"}
    [] s = "search_undefined" -> {"InstrumentSelector", "Search_omitted"}
    [] s = "search_order" -> {"Search_stocks", "Search_stocks_reordered"}
    [] s = "strategy_detail" -> {"Strategy_detail"}
    [] s = "defaults" -> {"Strategies_page", "Strategies_undefined"}
    [] s = "history" -> {"MarketData_history", "History_defaults"}
    [] s = "market" -> {"MarketData_realtime"}

\* The hooks whose component may unmount during the behaviour; the others belong
\* to a page that stays open.
ScenarioUnmounts(s) ==
  CASE s = "dashboard" -> {"Dashboard_user"}
    [] s = "market" -> {"MarketData_realtime"}
    [] OTHER -> {}

ScenarioMutations(s) ==
  CASE s = "dashboard" -> {"updateUserPreferences"}
    [] s = "lists" -> {"createStrategy"}
    [] s = "untagged" -> {"deleteStrategy"}
    [] s = "backtests" -> {"createStrategy"}
    [] s = "strategy_detail" -> {"updateStrategy", "deactivateStrategy"}
    [] s = "market" -> {"syncMarketData"}
    [] OTHER -> {}

(***************************************************************************)
(* Transport: what the backend may answer.                                 *)
(***************************************************************************)
\* "X" is data a page already shows when a behaviour starts; "Y" is the body of
\* any successful response received during it.
Data == {"X", "Y"}

FreshData == {"Y"}

\* fetchBaseQuery error statuses: HTTP 401, another 4xx, a 5xx, a transport failure.
ErrStatus == {"401", "422", "500", "FETCH_ERROR"}

OkResp(d) == [kind |-> "data", v |-> d]

ErrResp(s) == [kind |-> "error", v |-> s]

Responses == {OkResp(d) : d \in FreshData} \cup {ErrResp(s) : s \in ErrStatus}

\* The answers to a replay: the code returns any of them as it is, so one error
\* besides the 401 stands for the others.
ReplayResponses == {OkResp(d) : d \in FreshData} \cup {ErrResp("401"), ErrResp("500")}

\* The token pairs POST /auth/refresh may issue.
TokenPairs == {<<"A2", "R2">>}

RefreshErrStatus == {"400", "FETCH_ERROR"}

\* The answers to POST /auth/refresh: a body {access_token, refresh_token, user?},
\* a 2xx with an empty body, or an error.
RefreshResponses ==
  {[kind |-> "data", access |-> p[1], refresh |-> p[2], user |-> u, v |-> None] :
     p \in TokenPairs, u \in BOOLEAN}
  \cup {[kind |-> "empty", access |-> None, refresh |-> None, user |-> FALSE, v |-> None]}
  \cup {[kind |-> "error", access |-> None, refresh |-> None, user |-> FALSE, v |-> s] :
          s \in RefreshErrStatus}

(***************************************************************************)
(* State.                                                                  *)
(***************************************************************************)
VARIABLES
  scn,            \* the pages rendered in this behaviour
  token,          \* localStorage 'token'
  refreshToken,   \* localStorage 'refreshToken'
  user,           \* localStorage 'user'
  call,           \* the invocations of baseQueryWithRefresh, by request id
  nextId,         \* the next unused request id
  queries,        \* RTK Query cache: cache key -> entry
  provided,       \* RTK Query tag index: pairs <<tag, cache key>>
  subscribed,     \* the hook call sites currently subscribed
  timers,         \* cache keys with an armed removal timeout
  polls,          \* cache keys with an armed polling timeout
  sessionEnded,   \* history: a failed refresh has cleared the store (api.ts 39-43)
  settled         \* this turn's event: the invocation that returned (id 0: none),
                  \* the key whose removal timeout fired (<<>>: none) and what
                  \* ProtectedRoute rendered (none: no render)

vars == <<scn, token, refreshToken, user, call, nextId, queries, provided,
          subscribed, timers, polls, sessionEnded, settled>>

CallIds == 1..MaxCalls

FreeCall ==
  [pc |-> "free", kind |-> None, target |-> <<>>, hdrs |-> <<>>, body |-> None,
   log |-> <<>>, issued |-> None, result |-> <<>>]

\* Mutant: prepareHeaders attaches no Authorization header.
FirstSend_noHeader(kind, target, tok) ==
  [pc |-> "first", kind |-> kind, target |-> target, hdrs |-> <<None>>, body |-> None,
   log |-> <<>>, issued |-> None, result |-> <<>>]

\* rawBaseQuery(args): prepareHeaders reads the token when the request is issued.
FirstSend(kind, target, tok) ==
  [pc |-> "first", kind |-> kind, target |-> target, hdrs |-> <<tok>>, body |-> None,
   log |-> <<>>, issued |-> None, result |-> <<>>]

NoneSettled == [id |-> 0, rec |-> FreeCall, timeout |-> <<>>, view |-> None]

Init ==
  /\ scn \in Scenarios
  /\ \/ token = "A1" /\ refreshToken = "R1" /\ user = "u"
     \/ scn = "dashboard" /\ token = "A1" /\ refreshToken = None /\ user = None
  /\ call = [c \in CallIds |-> FreeCall]
  /\ nextId = 1
  /\ \E warm \in BOOLEAN :
       /\ subscribed = IF warm THEN ScenarioHooks(scn) ELSE {}
       /\ queries = [k \in {KeyOf(h) : h \in subscribed} |->
                       [status |-> "fulfilled", data |-> "X", error |-> None,
                        requestId |-> 0]]
       /\ provided = UNION {{<<t, KeyOf(h)>> : t \in ProvidesTags(HookSite(h).endpoint, HookSite(h).arg)} :
                              h \in subscribed}
  /\ timers = {}
  /\ polls = {KeyOf(h) : h \in subscribed \cap PollingHooks}
  /\ sessionEnded = FALSE
  /\ settled = NoneSettled

(***************************************************************************)
(* RTK Query cache: subscriptions, removal timers, tag index.              *)
(***************************************************************************)
Subs(k) == {h \in subscribed : KeyOf(h) = k}

RemoveKeys(q, ks) == [x \in DOMAIN q \ ks |-> q[x]]

Unprovide(p, ks) == {tk \in p : tk[2] \notin ks}

\* Mutant: a request already in flight does not stop a second one.
ShouldFetch_noPendingCheck(k, forced) ==
  \/ k \notin DOMAIN queries
  \/ forced \/ queries[k].data = None

\* queryThunk condition: a pending request is never duplicated; without a forced
\* refetch a value fulfilled before is served from the cache.
ShouldFetch(k, forced) ==
  \/ k \notin DOMAIN queries
  \/ /\ queries[k].status # "pending"
     /\ forced \/ queries[k].data = None

\* Mutant: a refetch starts from an empty entry.
PendingEntry_resetsData(q, k, id) ==
  [x \in DOMAIN q \cup {k} |->
     IF x = k THEN [status |-> "pending", data |-> None, error |-> None,
                    requestId |-> id]
     ELSE q[x]]

\* queryThunk.pending reducer: the entry is created or kept, with the new request id.
PendingEntry(q, k, id) ==
  IF k \in DOMAIN q
  THEN [q EXCEPT ![k].status = "pending", ![k].requestId = id]
  ELSE [x \in DOMAIN q \cup {k} |->
          IF x = k THEN [status |-> "pending", data |-> None, error |-> None,
                         requestId |-> id]
          ELSE q[x]]

\* Mutant: an invalidated tag matches only the tag equal to it.
TagMatches_structural(inv, tag) == inv = tag

\* Invalidation matches a tag without id against every id of its type.
TagMatches(inv, tag) == inv[1] = tag[1] /\ (inv[2] = NoId \/ inv[2] = tag[2])

\* Mutant: every registered key is invalidated, whatever its tags.
InvalidatedBy_anyTag(p, tags) == {tk[2] : tk \in p}

\* selectInvalidatedBy: the cache keys registered under any of the tags.
InvalidatedBy(p, tags) ==
  {k \in {tk[2] : tk \in p} :
     \E tk \in p : tk[2] = k /\ \E inv \in tags : TagMatches(inv, tk[1])}

\* Mutant: a failed request leaves its entry pending.
WriteResult_errorStaysPending(q, k, id, resp) ==
  IF k \in DOMAIN q /\ q[k].requestId = id
  THEN IF resp.kind = "data"
       THEN [q EXCEPT ![k] = [status |-> "fulfilled", data |-> resp.v,
                              error |-> None, requestId |-> id]]
       ELSE [q EXCEPT ![k].error = resp.v]
  ELSE q

\* Mutant: an error overwrites the entry, data included.
WriteResult_errorDropsData(q, k, id, resp) ==
  IF k \in DOMAIN q /\ q[k].requestId = id
  THEN IF resp.kind = "data"
       THEN [q EXCEPT ![k] = [status |-> "fulfilled", data |-> resp.v,
                              error |-> None, requestId |-> id]]
       ELSE [q EXCEPT ![k] = [status |-> "rejected", data |-> None,
                              error |-> resp.v, requestId |-> id]]
  ELSE q

\* Mutant: a success leaves the error of an earlier failure in the entry.
WriteResult_successKeepsError(q, k, id, resp) ==
  IF k \in DOMAIN q /\ q[k].requestId = id
  THEN IF resp.kind = "data"
       THEN [q EXCEPT ![k].status = "fulfilled", ![k].data = resp.v]
       ELSE [q EXCEPT ![k].status = "rejected", ![k].error = resp.v]
  ELSE q

\* queryThunk fulfilled / rejected reducers: only the request the entry waits for
\* writes it; an error keeps the data, a success removes the error.
WriteResult(q, k, id, resp) ==
  IF k \in DOMAIN q /\ q[k].requestId = id
  THEN IF resp.kind = "data"
       THEN [q EXCEPT ![k] = [status |-> "fulfilled", data |-> resp.v,
                              error |-> None, requestId |-> id]]
       ELSE [q EXCEPT ![k].status = "rejected", ![k].error = resp.v]
  ELSE q

\* Tag index after a query thunk settled (fulfilled or rejected with a value).
UpdateProvided(p, k) ==
  Unprovide(p, {k}) \cup {<<t, k>> : t \in ProvidesTags(EndpointOf(k), OriginalArgs(k))}

RECURSIVE AssignIds(_, _)
AssignIds(ks, n) ==
  IF ks = {} THEN [x \in {} |-> 0]
  ELSE LET k == CHOOSE x \in ks : TRUE
       IN (k :> n) @@ AssignIds(ks \ {k}, n + 1)

RECURSIVE PendingAll(_, _, _)
PendingAll(q, ks, ids) ==
  IF ks = {} THEN q
  ELSE LET k == CHOOSE x \in ks : TRUE
       IN PendingAll(PendingEntry(q, k, ids[k]), ks \ {k}, ids)

\* The thunk of call c settles with resp: rec is the call's record at its last
\* await, tok the token in the store at that moment.  A query writes its entry
\* and its tags; a mutation invalidates its tags: an entry without subscriber is
\* removed, a subscribed one that is not pending is refetched at once.  A settled
\* query with a polling subscriber arms the next poll.
Settle(c, rec, resp, tok) ==
  LET isQuery == rec.kind = "query"
      k == rec.target
      q1 == IF isQuery THEN WriteResult(queries, k, c, resp) ELSE queries
      p1 == IF isQuery THEN UpdateProvided(provided, k) ELSE provided
      hit == IF isQuery THEN {}
             ELSE InvalidatedBy(p1, InvalidatesTags(rec.target[1])) \cap DOMAIN q1
      removed == {x \in hit : Subs(x) = {}}
      refetch == {x \in hit : Subs(x) # {} /\ q1[x].status # "pending"}
      ids == AssignIds(refetch, nextId)
      done == [rec EXCEPT !.pc = "done", !.result = <<resp>>]
  IN /\ nextId + Cardinality(refetch) <= MaxCalls + 1
     /\ queries' = PendingAll(RemoveKeys(q1, removed), refetch, ids)
     /\ provided' = Unprovide(p1, removed)
     /\ call' = [x \in CallIds |->
                   IF x = c THEN [FreeCall EXCEPT !.pc = "done"]
                   ELSE IF \E r \in refetch : ids[r] = x
                   THEN FirstSend("query", CHOOSE r \in refetch : ids[r] = x, tok)
                   ELSE call[x]]
     /\ nextId' = nextId + Cardinality(refetch)
     /\ polls' = IF isQuery /\ k \in DOMAIN queries /\ Subs(k) \cap PollingHooks # {}
                 THEN polls \cup {k}
                 ELSE polls
     /\ settled' = [id |-> c, rec |-> done, timeout |-> <<>>, view |-> None]

(***************************************************************************)
(* Hooks.                                                                  *)
(***************************************************************************)
\* Mutant: the hook of ProtectedRoute subscribes whatever its skip option says.
Subscribe_ignoresSkip(h) ==
  /\ h \in ScenarioHooks(scn) \ subscribed
  /\ subscribed' = subscribed \cup {h}
  /\ LET k == KeyOf(h)
     IN IF ShouldFetch(k, FALSE)
        THEN /\ nextId <= MaxCalls
             /\ queries' = PendingEntry(queries, k, nextId)
             /\ call' = [call EXCEPT ![nextId] = FirstSend("query", k, token)]
             /\ nextId' = nextId + 1
        ELSE UNCHANGED <<queries, call, nextId>>
  /\ polls' = IF h \in PollingHooks THEN polls \cup {KeyOf(h)} ELSE polls
  /\ settled' = NoneSettled
  /\ UNCHANGED <<scn, sessionEnded, token, refreshToken, user, provided, timers>>

\* useQuery mounts: the subscription is added; the request is started unless the
\* condition serves it from the cache or from the request in flight.
Subscribe(h) ==
  /\ h \in ScenarioHooks(scn) \ subscribed
  /\ h = "ProtectedRoute" => token # None
  /\ subscribed' = subscribed \cup {h}
  /\ LET k == KeyOf(h)
     IN IF ShouldFetch(k, FALSE)
        THEN /\ nextId <= MaxCalls
             /\ queries' = PendingEntry(queries, k, nextId)
             /\ call' = [call EXCEPT ![nextId] = FirstSend("query", k, token)]
             /\ nextId' = nextId + 1
        ELSE UNCHANGED <<queries, call, nextId>>
  /\ polls' = IF h \in PollingHooks THEN polls \cup {KeyOf(h)} ELSE polls
  /\ settled' = NoneSettled
  /\ UNCHANGED <<scn, sessionEnded, token, refreshToken, user, provided, timers>>

\* Mutant: the last subscriber leaving aborts the request the entry waits for.
Unsubscribe_abortsRequest(h) ==
  /\ h \in subscribed \cap ScenarioUnmounts(scn)
  /\ subscribed' = subscribed \ {h}
  /\ timers' = IF Subs(KeyOf(h)) = {h} THEN timers \cup {KeyOf(h)} ELSE timers
  /\ polls' = IF (Subs(KeyOf(h)) \ {h}) \cap PollingHooks = {}
              THEN polls \ {KeyOf(h)}
              ELSE polls
  /\ call' = [c \in CallIds |->
                IF /\ Subs(KeyOf(h)) = {h}
                   /\ call[c].pc \in {"first", "refresh", "replay"}
                   /\ call[c].kind = "query" /\ call[c].target = KeyOf(h)
                THEN [FreeCall EXCEPT !.pc = "done"]
                ELSE call[c]]
  /\ settled' = NoneSettled
  /\ UNCHANGED <<scn, sessionEnded, token, refreshToken, user, nextId, queries, provided>>

\* useQuery unmounts: the last subscriber leaving arms the removal timeout
\* (keepUnusedDataFor, 60 s by default); the last polling subscriber leaving
\* clears the polling timeout.
Unsubscribe(h) ==
  /\ h \in subscribed \cap ScenarioUnmounts(scn)
  /\ subscribed' = subscribed \ {h}
  /\ timers' = IF Subs(KeyOf(h)) = {h} THEN timers \cup {KeyOf(h)} ELSE timers
  /\ polls' = IF (Subs(KeyOf(h)) \ {h}) \cap PollingHooks = {}
              THEN polls \ {KeyOf(h)}
              ELSE polls
  /\ settled' = NoneSettled
  /\ UNCHANGED <<scn, sessionEnded, token, refreshToken, user, call, nextId, queries, provided>>

\* Mutant: the entry is removed but stays registered under its tags.
RemovalTimeout_keepsTags(k) ==
  /\ k \in timers
  /\ timers' = timers \ {k}
  /\ IF Subs(k) = {}
     THEN queries' = RemoveKeys(queries, {k})
     ELSE UNCHANGED queries
  /\ settled' = [NoneSettled EXCEPT !.timeout = k]
  /\ UNCHANGED polls
  /\ UNCHANGED <<scn, sessionEnded, token, refreshToken, user, call, nextId, subscribed, provided>>

\* The removal timeout fires: the entry goes unless somebody subscribed again.
RemovalTimeout(k) ==
  /\ k \in timers
  /\ timers' = timers \ {k}
  /\ IF Subs(k) = {}
     THEN /\ queries' = RemoveKeys(queries, {k})
          /\ provided' = Unprovide(provided, {k})
     ELSE UNCHANGED <<queries, provided>>
  /\ settled' = [NoneSettled EXCEPT !.timeout = k]
  /\ UNCHANGED polls
  /\ UNCHANGED <<scn, sessionEnded, token, refreshToken, user, call, nextId, subscribed>>

\* useQuery's view of an entry: isLoading is a first fetch without data, isError
\* a rejected status.
IsLoading(q, k) == k \notin DOMAIN q \/ (q[k].status = "pending" /\ q[k].data = None)

IsError(q, k) == k \in DOMAIN q /\ q[k].status = "rejected"

HasData(q, k) == k \in DOMAIN q /\ q[k].data # None

\* Mutant: an error is ignored while user data from an earlier success is cached.
ProtectedRouteView_keepsCachedUser(tok, q) ==
  IF tok = None THEN "redirect"
  ELSE IF IsLoading(q, KeyOf("ProtectedRoute")) THEN "spinner"
  ELSE IF ~HasData(q, KeyOf("ProtectedRoute")) THEN "redirect"
  ELSE "children"

\* What ProtectedRoute returns (ProtectedRoute.tsx 15-34).
ProtectedRouteView(tok, q) ==
  IF tok = None THEN "redirect"
  ELSE IF IsLoading(q, KeyOf("ProtectedRoute")) THEN "spinner"
  ELSE IF IsError(q, KeyOf("ProtectedRoute")) \/ ~HasData(q, KeyOf("ProtectedRoute"))
  THEN "redirect"
  ELSE "children"

\* ProtectedRoute renders: while its hook is subscribed, or without a token (the
\* hook is then skipped, and a subscription it had is dropped).  Past the spinner,
\* an error or a missing user removes token, refreshToken and user before the
\* redirect.
ProtectedRouteRender ==
  /\ "ProtectedRoute" \in ScenarioHooks(scn)
  /\ "ProtectedRoute" \in subscribed \/ token = None
  /\ settled' = [NoneSettled EXCEPT !.view = ProtectedRouteView(token, queries)]
  /\ IF token = None
     THEN /\ subscribed' = subscribed \ {"ProtectedRoute"}
          /\ timers' = IF Subs(KeyOf("ProtectedRoute")) = {"ProtectedRoute"}
                       THEN timers \cup {KeyOf("ProtectedRoute")}
                       ELSE timers
          /\ UNCHANGED <<token, refreshToken, user>>
     ELSE /\ IF ProtectedRouteView(token, queries) = "redirect"
             THEN token' = None /\ refreshToken' = None /\ user' = None
             ELSE UNCHANGED <<token, refreshToken, user>>
          /\ UNCHANGED <<subscribed, timers>>
  /\ UNCHANGED <<scn, sessionEnded, call, nextId, queries, provided, polls>>

\* Mutant: the polling timeout does not refetch a key whose last request failed.
PollTimeout_stopsOnError(k) ==
  /\ k \in polls
  /\ polls' = polls \ {k}
  /\ IF ShouldFetch(k, TRUE) /\ queries[k].status # "rejected"
     THEN /\ nextId <= MaxCalls
          /\ queries' = PendingEntry(queries, k, nextId)
          /\ call' = [call EXCEPT ![nextId] = FirstSend("query", k, token)]
          /\ nextId' = nextId + 1
     ELSE UNCHANGED <<queries, call, nextId>>
  /\ settled' = NoneSettled
  /\ UNCHANGED <<scn, sessionEnded, token, refreshToken, user, provided, subscribed, timers>>

\* The polling timeout of a key fires: a forced refetch, unless a request for the
\* key is in flight.
PollTimeout(k) ==
  /\ k \in polls
  /\ polls' = polls \ {k}
  /\ IF ShouldFetch(k, TRUE)
     THEN /\ nextId <= MaxCalls
          /\ queries' = PendingEntry(queries, k, nextId)
          /\ call' = [call EXCEPT ![nextId] = FirstSend("query", k, token)]
          /\ nextId' = nextId + 1
     ELSE UNCHANGED <<queries, call, nextId>>
  /\ settled' = NoneSettled
  /\ UNCHANGED <<scn, sessionEnded, token, refreshToken, user, provided, subscribed, timers>>

\* A form triggers a mutation.
Mutate(m) ==
  /\ m \in ScenarioMutations(scn)
  /\ nextId <= MaxCalls
  /\ call' = [call EXCEPT ![nextId] = FirstSend("mutation", <<m>>, token)]
  /\ nextId' = nextId + 1
  /\ settled' = NoneSettled
  /\ UNCHANGED <<scn, sessionEnded, token, refreshToken, user, queries, provided,
                 subscribed, timers, polls>>

(***************************************************************************)
(* baseQueryWithRefresh, one action per await.                             *)
(***************************************************************************)
\* Mutant: a 401 starts the refresh whether or not a refresh token is stored.
FirstResponse_refreshesWithoutToken(c, resp) ==
  /\ call[c].pc = "first"
  /\ LET rec == [call[c] EXCEPT !.log = Append(@, resp)]
     IN IF resp = ErrResp("401")
        THEN /\ call' = [call EXCEPT ![c] =
                           [rec EXCEPT !.pc = "refresh", !.hdrs = Append(@, token),
                                       !.body = refreshToken]]
             /\ settled' = NoneSettled
             /\ UNCHANGED <<nextId, queries, provided, polls>>
        ELSE Settle(c, rec, resp, token)
  /\ UNCHANGED <<scn, sessionEnded, token, refreshToken, user, subscribed, timers>>

\* Mutant: the refresh call re-uses the Authorization header of the first send.
FirstResponse_reusesHeader(c, resp) ==
  /\ call[c].pc = "first"
  /\ LET rec == [call[c] EXCEPT !.log = Append(@, resp)]
     IN IF resp = ErrResp("401") /\ refreshToken # None
        THEN /\ call' = [call EXCEPT ![c] =
                           [rec EXCEPT !.pc = "refresh", !.hdrs = Append(@, rec.hdrs[1]),
                                       !.body = refreshToken]]
             /\ settled' = NoneSettled
             /\ UNCHANGED <<nextId, queries, provided, polls>>
        ELSE Settle(c, rec, resp, token)
  /\ UNCHANGED <<scn, sessionEnded, token, refreshToken, user, subscribed, timers>>

\* Mutant: every 4xx answer is taken for an expired token.
FirstResponse_refreshesOn4xx(c, resp) ==
  /\ call[c].pc = "first"
  /\ LET rec == [call[c] EXCEPT !.log = Append(@, resp)]
     IN IF resp \in {ErrResp("401"), ErrResp("422")} /\ refreshToken # None
        THEN /\ call' = [call EXCEPT ![c] =
                           [rec EXCEPT !.pc = "refresh", !.hdrs = Append(@, token),
                                       !.body = refreshToken]]
             /\ settled' = NoneSettled
             /\ UNCHANGED <<nextId, queries, provided, polls>>
        ELSE Settle(c, rec, resp, token)
  /\ UNCHANGED <<scn, sessionEnded, token, refreshToken, user, subscribed, timers>>

\* api.ts 17-29: the first answer.  A 401 with a stored refresh token sends
\* POST /auth/refresh; anything else is the result.
FirstResponse(c, resp) ==
  /\ call[c].pc = "first"
  /\ LET rec == [call[c] EXCEPT !.log = Append(@, resp)]
     IN IF resp = ErrResp("401") /\ refreshToken # None
        THEN /\ call' = [call EXCEPT ![c] =
                           [rec EXCEPT !.pc = "refresh", !.hdrs = Append(@, token),
                                       !.body = refreshToken]]
             /\ settled' = NoneSettled
             /\ UNCHANGED <<nextId, queries, provided, polls>>
        ELSE Settle(c, rec, resp, token)
  /\ UNCHANGED <<scn, sessionEnded, token, refreshToken, user, subscribed, timers>>

\* Mutant: the replay carries the header of the first send.
RefreshResponse_staleHeader(c, rr) ==
  /\ call[c].pc = "refresh"
  /\ LET rec == [call[c] EXCEPT !.issued = rr.access]
     IN IF rr.kind = "data"
        THEN /\ token' = rr.access
             /\ refreshToken' = rr.refresh
             /\ user' = IF rr.user THEN "u" ELSE user
             /\ call' = [call EXCEPT ![c] =
                           [rec EXCEPT !.pc = "replay", !.hdrs = Append(@, rec.hdrs[1])]]
             /\ settled' = NoneSettled
             /\ UNCHANGED <<nextId, queries, provided, polls, sessionEnded>>
        ELSE /\ token' = None
             /\ refreshToken' = None
             /\ user' = None
             /\ sessionEnded' = TRUE
             /\ Settle(c, rec, rec.log[1], None)
  /\ UNCHANGED <<scn, subscribed, timers>>

\* Mutant: a failed refresh leaves the stored tokens in place.
RefreshResponse_keepsTokens(c, rr) ==
  /\ call[c].pc = "refresh"
  /\ LET rec == [call[c] EXCEPT !.issued = rr.access]
     IN IF rr.kind = "data"
        THEN /\ token' = rr.access
             /\ refreshToken' = rr.refresh
             /\ user' = IF rr.user THEN "u" ELSE user
             /\ call' = [call EXCEPT ![c] =
                           [rec EXCEPT !.pc = "replay", !.hdrs = Append(@, rr.access)]]
             /\ settled' = NoneSettled
             /\ UNCHANGED <<nextId, queries, provided, polls, sessionEnded>>
        ELSE /\ UNCHANGED <<token, refreshToken, user>>
             /\ sessionEnded' = TRUE
             /\ Settle(c, rec, rec.log[1], token)
  /\ UNCHANGED <<scn, subscribed, timers>>

\* Mutant: a successful refresh stores the access token only.
RefreshResponse_writesAccessOnly(c, rr) ==
  /\ call[c].pc = "refresh"
  /\ LET rec == [call[c] EXCEPT !.issued = rr.access]
     IN IF rr.kind = "data"
        THEN /\ token' = rr.access
             /\ refreshToken' = refreshToken
             /\ user' = IF rr.user THEN "u" ELSE user
             /\ call' = [call EXCEPT ![c] =
                           [rec EXCEPT !.pc = "replay", !.hdrs = Append(@, rr.access)]]
             /\ settled' = NoneSettled
             /\ UNCHANGED <<nextId, queries, provided, polls, sessionEnded>>
        ELSE /\ token' = None
             /\ refreshToken' = None
             /\ user' = None
             /\ sessionEnded' = TRUE
             /\ Settle(c, rec, rec.log[1], None)
  /\ UNCHANGED <<scn, subscribed, timers>>

\* api.ts 31-43: the answer to the refresh call.  With a body the tokens are
\* stored and the request is replayed; otherwise the store is cleared and the
\* first answer is the result.
RefreshResponse(c, rr) ==
  /\ call[c].pc = "refresh"
  /\ LET rec == [call[c] EXCEPT !.issued = rr.access]
     IN IF rr.kind = "data"
        THEN /\ token' = rr.access
             /\ refreshToken' = rr.refresh
             /\ user' = IF rr.user THEN "u" ELSE user
             /\ call' = [call EXCEPT ![c] =
                           [rec EXCEPT !.pc = "replay", !.hdrs = Append(@, rr.access)]]
             /\ settled' = NoneSettled
             /\ UNCHANGED <<nextId, queries, provided, polls, sessionEnded>>
        ELSE /\ token' = None
             /\ refreshToken' = None
             /\ user' = None
             /\ sessionEnded' = TRUE
             /\ Settle(c, rec, rec.log[1], None)
  /\ UNCHANGED <<scn, subscribed, timers>>

\* Mutant: a 401 on the replay starts the refresh again.
ReplayResponse_refreshesAgain(c, resp) ==
  /\ call[c].pc = "replay"
  /\ LET rec == [call[c] EXCEPT !.log = Append(@, resp)]
     IN IF resp = ErrResp("401") /\ refreshToken # None
        THEN /\ call' = [call EXCEPT ![c] =
                           [rec EXCEPT !.pc = "refresh", !.hdrs = Append(@, token),
                                       !.body = refreshToken]]
             /\ settled' = NoneSettled
             /\ UNCHANGED <<nextId, queries, provided, polls>>
        ELSE Settle(c, rec, resp, token)
  /\ UNCHANGED <<scn, sessionEnded, token, refreshToken, user, subscribed, timers>>

\* api.ts 38, 46: the answer to the replay is the result, whatever it is.
ReplayResponse(c, resp) ==
  /\ call[c].pc = "replay"
  /\ Settle(c, [call[c] EXCEPT !.log = Append(@, resp)], resp, token)
  /\ UNCHANGED <<scn, sessionEnded, token, refreshToken, user, subscribed, timers>>

Next ==
  \/ \E h \in ScenarioHooks(scn) : Subscribe(h)
  \/ \E h \in subscribed : Unsubscribe(h)
  \/ \E k \in timers : RemovalTimeout(k)
  \/ \E m \in ScenarioMutations(scn) : Mutate(m)
  \/ ProtectedRouteRender
  \/ \E k \in polls : PollTimeout(k)
  \/ \E c \in CallIds, resp \in Responses : FirstResponse(c, resp)
  \/ \E c \in CallIds, rr \in RefreshResponses : RefreshResponse(c, rr)
  \/ \E c \in CallIds, resp \in ReplayResponses : ReplayResponse(c, resp)

Spec == Init /\ [][Next]_vars

(***************************************************************************)
(* Properties.                                                             *)
(***************************************************************************)
Refreshing == {c \in CallIds : call[c].pc = "refresh"}

Unauthorized == ErrResp("401")

Returned == settled.id # 0

\* The step starts a network call for cache key k.
NewCallFor(k) ==
  \E c \in CallIds :
    call[c].pc = "free" /\ call'[c].pc = "first" /\ call'[c].target = k

StoreUnchanged == token' = token /\ refreshToken' = refreshToken /\ user' = user

\* C1: when several requests receive a 401 while a refresh token is stored, at
\* most one POST /auth/refresh is in flight at any time: a later 401 observer
\* attaches to the refresh in flight instead of sending its own.
C1_SingleFlightRefresh == Cardinality(Refreshing) <= 1

\* C2: one invocation sends its request at most twice and refreshes at most once
\* (three transport requests in all, each awaited in turn); the answer to the
\* replay, a 401 included, is returned as the result, and nothing follows it.
C2_AtMostOneReplay ==
  /\ \A c \in CallIds :
       /\ call[c].pc = "first" => Len(call[c].hdrs) = 1 /\ Len(call[c].log) = 0
       /\ call[c].pc = "refresh" => Len(call[c].hdrs) = 2 /\ Len(call[c].log) = 1
       /\ call[c].pc = "replay" => Len(call[c].hdrs) = 3 /\ Len(call[c].log) = 1
  /\ Returned =>
       /\ settled.rec.pc = "done" /\ call[settled.id].pc = "done"
       /\ Len(settled.rec.hdrs) <= 3
       /\ Len(settled.rec.log) <= 2
       /\ Len(settled.rec.log) = 2 =>
            /\ Len(settled.rec.hdrs) = 3
            /\ settled.rec.result = <<settled.rec.log[2]>>

C2_Witness ==
  /\ Returned
  /\ settled.rec.log = <<Unauthorized, Unauthorized>>
  /\ refreshToken # None

\* C3: a request answered 401, then refreshed with success, then replayed with
\* success, sent its replay with the access token the refresh returned, and the
\* caller gets the replay's success response, never an error.
C3_TransparentRefresh ==
  /\ \A c \in CallIds :
       call[c].pc = "replay" =>
         call[c].issued # None /\ call[c].hdrs[3] = call[c].issued
  /\ (Returned /\ Len(settled.rec.log) = 2 /\ settled.rec.log[2].kind = "data") =>
       /\ settled.rec.log[1] = Unauthorized
       /\ settled.rec.issued # None
       /\ settled.rec.hdrs[3] = settled.rec.issued
       /\ settled.rec.result = <<settled.rec.log[2]>>
       /\ (settled.rec.kind = "query" /\ settled.rec.target \in DOMAIN queries
           /\ queries[settled.rec.target].requestId = settled.id) =>
            /\ queries[settled.rec.target].status = "fulfilled"
            /\ queries[settled.rec.target].data = settled.rec.log[2].v
            /\ queries[settled.rec.target].error = None

C3_Witness ==
  /\ Returned
  /\ settled.rec.kind = "query"
  /\ settled.rec.target \in DOMAIN queries
  /\ queries[settled.rec.target].data = "Y"
  /\ settled.rec.log = <<Unauthorized, OkResp("Y")>>
  /\ settled.rec.hdrs = <<"A1", "A1", "A2">>
  /\ settled.rec.result = <<OkResp("Y")>>

\* The invocation that returned in this turn had sent a refresh call that failed.
RefreshFailed == Returned /\ Len(settled.rec.hdrs) = 2

\* C4: when the refresh call of a request fails, token, refreshToken and user are
\* removed, the request is not replayed (it was sent once), and its result is the
\* 401 it received; so it is for each request whose refresh call fails.
C4_RefreshFailureClearsStore ==
  RefreshFailed =>
    /\ token = None /\ refreshToken = None /\ user = None
    /\ settled.rec.issued = None
    /\ settled.rec.log = <<Unauthorized>>
    /\ settled.rec.result = <<Unauthorized>>

C4_Witness == RefreshFailed /\ Refreshing # {}

\* The calls in flight whose answer the entry of k waits for.
Awaited(q, cs, k) ==
  {c \in CallIds : /\ cs[c].pc \in {"first", "refresh", "replay"}
                   /\ cs[c].kind = "query" /\ cs[c].target = k
                   /\ q[k].requestId = c}

Declares(k, m) ==
  \E tk \in provided :
    /\ tk[2] = k
    /\ \E inv \in InvalidatesTags(m) :
         inv[1] = tk[1][1] /\ (inv[2] = NoId \/ inv = tk[1])

\* C6: when a mutation's tags are invalidated, an entry that declares none of
\* them keeps its data, status and request and is not refetched; an entry that
\* declares one is removed (no subscriber) or is being fetched afterwards.
C6_InvalidationFrame ==
  [][(settled'.id # 0 /\ settled'.rec.kind = "mutation") =>
       \A k \in DOMAIN queries :
         IF Declares(k, settled'.rec.target[1])
         THEN k \notin DOMAIN queries' \/ queries'[k].status = "pending"
         ELSE /\ k \in DOMAIN queries'
              /\ queries'[k] = queries[k]
              /\ ~NewCallFor(k)]_vars

C6_Witness ==
  /\ Returned
  /\ settled.rec.kind = "mutation"
  /\ scn = "lists"
  /\ {KeyOf("Dashboard_strategies"), KeyOf("Backtests")} \subseteq DOMAIN queries
  /\ queries[KeyOf("Dashboard_strategies")].status = "pending"
  /\ queries[KeyOf("Backtests")].status = "fulfilled"
  /\ queries[KeyOf("Backtests")].data = "X"

\* C7: an entry that holds data keeps it when a request for it ends in an error:
\* the entry then shows the data together with the error; data leaves an entry
\* only when a success replaces it or the entry itself is removed.
C7_StaleWhileError ==
  [][\A k \in DOMAIN queries \cap DOMAIN queries' :
       queries[k].data # None =>
         /\ queries'[k].status # "fulfilled" => queries'[k].data = queries[k].data
         /\ queries'[k].status = "rejected" => queries'[k].error # None]_vars

C7_Witness ==
  /\ RefreshFailed
  /\ settled.rec.kind = "query"
  /\ settled.rec.target \in DOMAIN queries
  /\ queries[settled.rec.target].status = "rejected"
  /\ queries[settled.rec.target].data = "X"
  /\ queries[settled.rec.target].error = "401"

\* C8: when the removal timeout of a key fires and the key has no subscriber, its
\* entry leaves the cache and every tag set; when somebody subscribed again in
\* the meantime the entry is kept as it is.
C8_Eviction ==
  [][\A k \in timers \ timers' :
       IF Subs(k) = {}
       THEN /\ k \notin DOMAIN queries'
            /\ \A tk \in provided' : tk[2] # k
       ELSE /\ k \in DOMAIN queries'
            /\ queries'[k] = queries[k]
            /\ provided' = provided]_vars

C8_Witness ==
  /\ settled.timeout = KeyOf("Dashboard_user")
  /\ nextId = 2
  /\ call[1].pc = "done"
  /\ subscribed = {}
  /\ KeyOf("Dashboard_user") \notin DOMAIN queries
  /\ provided = {}

\* The defined fields of an argument: what two writings of it have in common.
DefinedFields(arg) ==
  {arg.fields[i] : i \in {j \in 1..Len(arg.fields) : arg.fields[j][2] # "undefined"}}

SameArguments(h1, h2) ==
  /\ HookSite(h1).endpoint = HookSite(h2).endpoint
  /\ HookSite(h1).arg.kind = HookSite(h2).arg.kind
  /\ DefinedFields(HookSite(h1).arg) = DefinedFields(HookSite(h2).arg)

\* C9: two hooks of one endpoint whose arguments differ only in the order of the
\* keys or in a field being undefined or left out have the same cache key: they
\* share one entry, and the second to subscribe starts no request of its own.
C9_KeyNormalization ==
  \A h1, h2 \in ScenarioHooks(scn) :
    SameArguments(h1, h2) =>
      /\ KeyOf(h1) = KeyOf(h2)
      /\ {h1, h2} \subseteq subscribed =>
           Cardinality({KeyOf(h1), KeyOf(h2)} \cap DOMAIN queries) = 1

C9_Witness ==
  /\ scn = "search_order"
  /\ subscribed = {"Search_stocks", "Search_stocks_reordered"}
  /\ HookSite("Search_stocks").arg # HookSite("Search_stocks_reordered").arg
  /\ DOMAIN queries = {KeyOf("Search_stocks")}
  /\ queries[KeyOf("Search_stocks")].status = "pending"
  /\ nextId = 2

\* C10: a request issued while a token is stored carries that token; when its
\* first answer is a success it was sent once, no refresh call was made, the
\* store is as it was, and the query's entry is fulfilled with the body.
C10_SuccessPath ==
  [][\A c \in CallIds :
       /\ (call[c].pc = "free" /\ call'[c].pc = "first") =>
            call'[c].hdrs = <<token'>>
       /\ (call[c].pc = "first" /\ settled'.id = c
           /\ settled'.rec.log[1].kind = "data") =>
            /\ StoreUnchanged
            /\ settled'.rec.hdrs = call[c].hdrs
            /\ settled'.rec.issued = None
            /\ settled'.rec.log = settled'.rec.result
            /\ (call[c].kind = "query" /\ call[c].target \in DOMAIN queries
                /\ queries[call[c].target].requestId = c) =>
                 /\ queries'[call[c].target].status = "fulfilled"
                 /\ queries'[call[c].target].data = settled'.rec.log[1].v
                 /\ queries'[call[c].target].error = None]_vars

C10_Witness ==
  /\ Returned
  /\ settled.rec.kind = "query"
  /\ settled.rec.target = KeyOf("ProtectedRoute")
  /\ settled.rec.hdrs = <<"A1">>
  /\ settled.rec.result = <<OkResp("Y")>>
  /\ token = "A1" /\ refreshToken = None
  /\ KeyOf("ProtectedRoute") \in DOMAIN queries
  /\ queries[KeyOf("ProtectedRoute")].data = "Y"

\* C11: every request an invocation issues (first send, refresh call, replay)
\* carries the access token that is in the store when it is issued, and no
\* Authorization header when none is stored; the refresh call carries as body
\* the refresh token that is in the store when it is issued.
C11_HeadersReadAtIssue ==
  [][\A c \in CallIds :
       Len(call'[c].hdrs) > Len(call[c].hdrs) =>
         /\ Len(call'[c].hdrs) = Len(call[c].hdrs) + 1
         /\ call'[c].hdrs[Len(call'[c].hdrs)] = token'
         /\ call'[c].pc = "refresh" =>
              /\ refreshToken' # None
              /\ call'[c].body = refreshToken']_vars

C11_Witness ==
  \E c \in CallIds :
    /\ call[c].pc = "refresh"
    /\ call[c].hdrs = <<"A1", "A2">>
    /\ call[c].body = "R2"
    /\ token = "A2" /\ refreshToken = "R2"

\* C12: a first answer that is a transport failure, a 4xx other than 401 or a
\* 5xx is the result of the invocation: one send, no refresh call, no second
\* send of the request, the token store as it was; the query's entry is rejected
\* with that error.  Only a 401 leads to a refresh call.
C12_OtherErrorsReturned ==
  [][\A c \in CallIds :
       /\ (call[c].pc = "first" /\ call'[c].pc = "refresh") =>
            call'[c].log = <<Unauthorized>>
       /\ (call[c].pc = "first" /\ settled'.id = c
           /\ settled'.rec.log[1].kind = "error"
           /\ settled'.rec.log[1] # Unauthorized) =>
            /\ StoreUnchanged
            /\ settled'.rec.hdrs = call[c].hdrs
            /\ Len(settled'.rec.hdrs) = 1
            /\ settled'.rec.result = settled'.rec.log
            /\ call'[c].pc = "done"
            /\ \A d \in CallIds :
                 (call[d].pc = "free" /\ call'[d].pc = "first") =>
                   call'[d].kind = "query" /\ call'[d].target # call[c].target
            /\ (call[c].kind = "query" /\ call[c].target \in DOMAIN queries
                /\ queries[call[c].target].requestId = c) =>
                 /\ queries'[call[c].target].status = "rejected"
                 /\ queries'[call[c].target].error = settled'.rec.log[1].v]_vars

C12_Witness ==
  /\ Returned
  /\ settled.rec.kind = "query"
  /\ settled.rec.log = <<ErrResp("422")>>
  /\ settled.rec.hdrs = <<"A1">>
  /\ token = "A1" /\ refreshToken = "R1"
  /\ settled.rec.target \in DOMAIN queries
  /\ queries[settled.rec.target].status = "rejected"
  /\ queries[settled.rec.target].error = "422"

\* C13: a mutation that ends in an error invalidates nothing: in the step in
\* which it returns, no cache entry changes or leaves, no tag registration
\* changes and no request is started.
C13_InvalidateOnlyOnSuccess ==
  [][(settled'.id # 0 /\ settled'.rec.kind = "mutation"
      /\ settled'.rec.result[1].kind = "error") =>
       /\ queries' = queries
       /\ provided' = provided
       /\ nextId' = nextId]_vars

\* C14: token and refreshToken change only in a step in which an invocation
\* leaves its refresh call (the refresh succeeded or failed); no render and no
\* other step of a query or mutation writes or removes them.
C14_StoreWrittenOnlyByRefresh ==
  [][(token' # token \/ refreshToken' # refreshToken) =>
       \E c \in CallIds : call[c].pc = "refresh" /\ call'[c].pc # "refresh"]_vars

\* C15: once a failed refresh has cleared the store, the store stays empty and
\* no refresh call is issued (the model has no re-login), whatever was in flight
\* when the refresh failed.
C15_FailedIsTerminal ==
  [][(sessionEnded /\ token = None /\ refreshToken = None) =>
       /\ token' = None /\ refreshToken' = None
       /\ \A c \in CallIds : call'[c].pc = "refresh" => call[c].pc = "refresh"]_vars

\* C16: the result of an invocation whose refresh call failed is an error of a
\* kind of its own: it is none of the errors a backend response or a transport
\* failure gives, in particular not a plain 401.
C16_DistinctAuthFailed ==
  RefreshFailed => settled.rec.result[1] \notin Responses

\* C17: when the refresh call of an invocation fails while the store holds a
\* token pair written after that invocation was first sent (another request's
\* refresh for the same expiry succeeded), the stored pair is left in place.
C17_RotatedPairSurvives ==
  [][\A c \in CallIds :
       (call[c].pc = "refresh" /\ settled'.id = c
        /\ token # None /\ refreshToken # None
        /\ call[c].hdrs[1] # token /\ call[c].body # refreshToken) =>
         token' = token /\ refreshToken' = refreshToken]_vars

\* The access and refresh tokens the backend issued together.
IssuedPairs == {<<"A1", "R1">>} \cup TokenPairs

\* C18: between two turns the store never holds the access token of one issued
\* pair with the refresh token of another, and the Authorization header and the
\* refresh token a request read for its refresh call belong to one issued pair.
C18_AtomicPairWrite ==
  /\ <<token, refreshToken>> \in IssuedPairs \cup {<<None, None>>, <<"A1", None>>}
  /\ \A c \in CallIds :
       call[c].pc = "refresh" => <<call[c].hdrs[2], call[c].body>> \in IssuedPairs

C18_Witness ==
  /\ token = "A2" /\ refreshToken = "R2"
  /\ \E c, d \in CallIds :
       /\ call[c].pc = "replay"
       /\ call[d].pc = "first"
       /\ call[d].hdrs = <<"A2">>

\* C19 as stated: an entry has data exactly when its status is fulfilled, and an
\* error exactly when its status is rejected.
C19_DataIffSuccess ==
  \A k \in DOMAIN queries :
    /\ queries[k].data # None <=> queries[k].status = "fulfilled"
    /\ queries[k].error # None <=> queries[k].status = "rejected"

\* C19 amended: a fulfilled entry has data and no error, a rejected entry has an
\* error; data may stay in a pending or rejected entry.
C19_StatusImpliesContent ==
  \A k \in DOMAIN queries :
    /\ queries[k].status = "fulfilled" => queries[k].data # None /\ queries[k].error = None
    /\ queries[k].status = "rejected" => queries[k].error # None

C19_Witness ==
  \E k \in DOMAIN queries :
    /\ queries[k].status = "rejected"
    /\ queries[k].data = "X"
    /\ queries[k].error = "500"

C21_TagIndexConsistent ==
  /\ \A tk \in provided :
       /\ tk[2] \in DOMAIN queries
       /\ tk[1] \in ProvidesTags(EndpointOf(tk[2]), OriginalArgs(tk[2]))
  /\ \A k \in DOMAIN queries :
       queries[k].status \in {"fulfilled", "rejected"} =>
         \A t \in ProvidesTags(EndpointOf(k), OriginalArgs(k)) : <<t, k>> \in provided

\* The step is the polling timeout of key k firing: the armed poll of k is gone
\* and no hook has unsubscribed.
PollFired(k) == k \in polls /\ k \notin polls' /\ subscribed' = subscribed

\* C22: a poll that fails, with the 401 of a failed refresh included, neither
\* unsubscribes the caller nor stops the polling: the entry keeps its previous
\* data next to the new error, the next poll is armed, and when its timeout
\* fires a new request is issued for the key.
C22_FailedPollKeepsPolling ==
  [][/\ (/\ settled'.id # 0
         /\ settled'.rec.kind = "query"
         /\ settled'.rec.result[1].kind = "error"
         /\ settled'.rec.target \in DOMAIN queries
         /\ queries[settled'.rec.target].requestId = settled'.id
         /\ Subs(settled'.rec.target) \cap PollingHooks # {}) =>
          LET k == settled'.rec.target
          IN /\ subscribed' = subscribed
             /\ k \in polls'
             /\ k \in DOMAIN queries'
             /\ queries'[k].status = "rejected"
             /\ queries'[k].error = settled'.rec.result[1].v
             /\ queries'[k].data = queries[k].data
     /\ \A k \in DOMAIN queries :
          (PollFired(k) /\ queries[k].status # "pending") =>
            /\ NewCallFor(k)
            /\ queries'[k].status = "pending"
            /\ queries'[k].data = queries[k].data]_vars

\* The poll after a failed refresh: the entry of the polled key was rejected with
\* 401, the user was logged out, and the timeout has fired again: the key is
\* being fetched with the old data and the error still shown.
C22_Witness ==
  /\ scn = "market"
  /\ sessionEnded
  /\ "MarketData_realtime" \in subscribed
  /\ KeyOf("MarketData_realtime") \in DOMAIN queries
  /\ queries[KeyOf("MarketData_realtime")].status = "pending"
  /\ queries[KeyOf("MarketData_realtime")].data = "X"
  /\ queries[KeyOf("MarketData_realtime")].error = "401"
  /\ token = None

\* The entry of k after the step holds the result the settled call returned.
ResultWritten(k) ==
  /\ k \in DOMAIN queries'
  /\ queries'[k].requestId = settled'.id
  /\ IF settled'.rec.result[1].kind = "data"
     THEN queries'[k].status = "fulfilled" /\ queries'[k].data = settled'.rec.result[1].v
     ELSE queries'[k].status = "rejected" /\ queries'[k].error = settled'.rec.result[1].v

\* A hook subscribes to a key whose removal timeout is armed and whose entry is
\* fulfilled: it is served the entry as it is, without a network call.
GraceSubscriberServed ==
  \A h \in ScenarioHooks(scn) :
    (/\ h \notin subscribed /\ h \in subscribed'
     /\ KeyOf(h) \in timers
     /\ KeyOf(h) \in DOMAIN queries
     /\ queries[KeyOf(h)].status = "fulfilled") =>
       /\ queries' = queries
       /\ call' = call

C24_InFlightEndsAtSettle ==
  [][/\ (/\ settled'.id # 0
         /\ settled'.rec.kind = "query"
         /\ settled'.rec.target \in DOMAIN queries
         /\ queries[settled'.rec.target].requestId = settled'.id) =>
          /\ settled'.rec.target \in DOMAIN queries'
          /\ queries'[settled'.rec.target].status \in {"fulfilled", "rejected"}
          /\ call'[settled'.id].pc = "done"
     /\ \A k \in DOMAIN queries :
          queries[k].status = "pending" => Cardinality(Awaited(queries, call, k)) = 1
     /\ \A k \in DOMAIN queries \cap DOMAIN queries' :
          (queries[k].status # "pending" /\ queries'[k].status = "pending") =>
            /\ NewCallFor(k)
            /\ queries'[k].requestId # queries[k].requestId
            /\ call[queries'[k].requestId].pc = "free"
            /\ call'[queries'[k].requestId].pc = "first"]_vars

\* After a refresh failure settled the first call of a key, the key is fetched
\* again: the second call is in flight, the first one is over.
C24_Witness ==
  /\ scn = "dashboard"
  /\ sessionEnded
  /\ KeyOf("Dashboard_user") \in DOMAIN queries
  /\ queries[KeyOf("Dashboard_user")].status = "pending"
  /\ queries[KeyOf("Dashboard_user")].requestId = 2
  /\ queries[KeyOf("Dashboard_user")].error = "401"
  /\ call[1].pc = "done"
  /\ call[2].pc = "first"

DeclaredTags(k) == {tk[1] : tk \in {x \in provided : x[2] = k}}

\* The effect of marking the entry of k stale: it is removed, or it is being
\* fetched after the step.
MarkedStale(k) == k \notin DOMAIN queries' \/ queries'[k].status = "pending"

\* The step leaves the entry of k alone.
Untouched(k) == k \in DOMAIN queries' /\ queries'[k] = queries[k] /\ ~NewCallFor(k)

CallsInFlightFor(h1, h2) ==
  {c \in CallIds : /\ call[c].pc \in {"first", "refresh", "replay"}
                   /\ call[c].kind = "query"
                   /\ call[c].target \in {KeyOf(h1), KeyOf(h2)}}

\* C27: two hooks of one endpoint whose arguments make the endpoint's query
\* function build the identical request have the same cache key; when both are
\* subscribed they share one entry and at most one network call is in flight
\* for them.
C27_SameRequestSameKey ==
  \A h1, h2 \in ScenarioHooks(scn) :
    (/\ HookSite(h1).endpoint = HookSite(h2).endpoint
     /\ QueryRequest(HookSite(h1).endpoint, HookSite(h1).arg)
          = QueryRequest(HookSite(h2).endpoint, HookSite(h2).arg)) =>
      /\ KeyOf(h1) = KeyOf(h2)
      /\ {h1, h2} \subseteq subscribed =>
           /\ Cardinality({KeyOf(h1), KeyOf(h2)} \cap DOMAIN queries) = 1
           /\ Cardinality(CallsInFlightFor(h1, h2)) <= 1

\* C28: a 401 received while no refresh token is stored is the result of the
\* invocation: no refresh call is sent (a call goes from its first send to the
\* refresh only with a stored refresh token, which is the body of the refresh
\* call), the request is not sent again, the 401 is returned, and token, refresh
\* token and user stay as they are.
C28_NoRefreshTokenNoRefresh ==
  [][\A c \in CallIds :
       /\ (call[c].pc = "first" /\ call'[c].pc = "refresh") =>
            refreshToken # None /\ call'[c].body = refreshToken
       /\ (call[c].pc = "first" /\ refreshToken = None /\ call'[c] # call[c]) =>
            /\ settled'.id = c
            /\ call'[c].pc = "done"
            /\ settled'.rec.hdrs = call[c].hdrs
            /\ Len(settled'.rec.hdrs) = 1
            /\ Len(settled'.rec.log) = 1
            /\ settled'.rec.result = settled'.rec.log
            /\ settled'.rec.issued = None
            /\ StoreUnchanged]_vars

\* A request sent with the access token of a store without refresh token was
\* answered 401 and has returned it; the access token is still stored.
C28_Witness ==
  /\ Returned
  /\ settled.rec.log = <<Unauthorized>>
  /\ settled.rec.result = <<Unauthorized>>
  /\ settled.rec.hdrs = <<"A1">>
  /\ token = "A1" /\ refreshToken = None /\ user = None
  /\ ~sessionEnded

\* C29: whenever ProtectedRoute renders with a stored token and getCurrentUser,
\* past its first loading, is in error or has no user, token, refreshToken and
\* user are removed and the redirect is returned, whatever the error and also
\* when user data of an earlier success is still in the entry; the children are
\* returned only for an entry with a user and without error.
C29_ErrorLogsOut ==
  [][settled'.view # None =>
       LET k == KeyOf("ProtectedRoute")
       IN /\ (/\ token # None
              /\ k \in DOMAIN queries
              /\ ~(queries[k].status = "pending" /\ queries[k].data = None)
              /\ (queries[k].status = "rejected" \/ queries[k].data = None)) =>
               /\ settled'.view = "redirect"
               /\ token' = None /\ refreshToken' = None /\ user' = None
          /\ settled'.view = "children" =>
               /\ k \in DOMAIN queries
               /\ queries[k].status # "rejected"
               /\ queries[k].data # None
               /\ StoreUnchanged]_vars

\* ProtectedRoute has rendered after a refetch of getCurrentUser was answered
\* 500 with the user of the earlier success still cached: the store was full
\* before the render and is empty now.
C29_Witness ==
  /\ settled.view = "redirect"
  /\ ~sessionEnded
  /\ token = None /\ refreshToken = None /\ user = None
  /\ "ProtectedRoute" \in subscribed
  /\ KeyOf("ProtectedRoute") \in DOMAIN queries
  /\ queries[KeyOf("ProtectedRoute")].status = "rejected"
  /\ queries[KeyOf("ProtectedRoute")].data = "X"
  /\ queries[KeyOf("ProtectedRoute")].error = "500"

StrategyMutations ==
  {"createStrategy", "updateStrategy", "deleteStrategy", "activateStrategy",
   "deactivateStrategy"}

====
